---- MODULE Spec2Model ----
(***************************************************************************)
(* Model of arturo/commands/build.py, class Preprocess: the sketch (.ino)  *)
(* to .cpp preprocessor.  Text is a sequence of one-character strings.     *)
(***************************************************************************)
EXTENDS Integers, Sequences, FiniteSets, TLC

VARIABLES
    pc,          \* control point of the operation in progress
    src,         \* _strip / _prototypes: the text being redacted
    spos,        \* _strip: scan position of re.sub in src
    redacted,    \* _strip: the text produced so far / returned
    restripped,  \* _strip applied to the output of _strip
    cpos,        \* _collapse_braces: index of the loop variable c
    nesting,     \* _collapse_braces: the nesting counter
    result,      \* _collapse_braces: the result list
    prototypes,  \* _prototypes: the list returned
    src_lines,   \* _extract_includes: the argument
    lpos,        \* _extract_includes: index of the loop variable line
    includes,    \* _extract_includes / _generateSFile: the includes list
    lines,       \* _extract_includes: the sketch list; _generateSFile: lines
    sketches,    \* Preprocess._sketches
    fs,          \* the sketch files on disk: path -> text or NoFile
    dirMade,     \* whether the output directory exists
    outFiles,    \* the output directory: name -> list of writes or NoFile
    k,           \* run: index of the loop variable sketch in _sketches
    sketch,      \* _generateSFile: the local sketch (path, then file text)
    wr           \* _generateSFile: number of out.write calls made

textVars == <<src, spos, redacted, restripped, cpos, nesting, result>>
incVars  == <<src_lines, lpos>>
runVars  == <<sketches, fs, dirMade, outFiles, k, sketch, wr>>
vars == <<pc, textVars, prototypes, incVars, includes, lines, runVars>>

----------------------------------------------------------------------------
(* Bounds of the model *)

MaxLines    == 3    \* lines of an input of _extract_includes
MaxFrags    == 3    \* source fragments of an input of _strip
MaxBraceLen == 4    \* characters of an input of _collapse_braces
MaxSketches == 2    \* --sketch arguments of one invocation

----------------------------------------------------------------------------
(* Characters and character classes of Python's re on byte strings *)

Q  == "\""
B  == "\\"
NL == "\n"

SpaceChars == {" ", "\t", "\n", "\r", "\f"}

IsSpace(c) == c \in SpaceChars

WordChars ==
    {"a","b","c","d","e","f","g","h","i","j","k","l","m","n","o","p","q",
     "r","s","t","u","v","w","x","y","z",
     "A","B","C","D","E","F","G","H","I","J","K","L","M","N","O","P","Q",
     "R","S","T","U","V","W","X","Y","Z",
     "0","1","2","3","4","5","6","7","8","9","_"}

IsWord(c) == c \in WordChars

\* first index p >= i of s whose character is not in the class S,
\* Len(s)+1 if none
SkipWhile(s, i, S) ==
    LET stop == {p \in i..Len(s) : s[p] \notin S}
    IN  IF i > Len(s) THEN i
        ELSE IF stop = {} THEN Len(s) + 1
        ELSE CHOOSE p \in stop : \A r \in stop : p <= r

\* first index p >= i of s whose character is in the class S, Len(s)+1
\* if none
SkipUntil(s, i, S) ==
    LET stop == {p \in i..Len(s) : s[p] \in S}
    IN  IF i > Len(s) THEN i
        ELSE IF stop = {} THEN Len(s) + 1
        ELSE CHOOSE p \in stop : \A r \in stop : p <= r

\* s[i..] starts with the text t
StartsWith(s, i, t) ==
    /\ i + Len(t) - 1 <= Len(s)
    /\ \A n \in 1..Len(t) : s[i + n - 1] = t[n]

RECURSIVE Concat(_)
Concat(ss) == IF ss = <<>> THEN <<>> ELSE Head(ss) \o Concat(Tail(ss))

\* all sequences over S of length 0..n
SeqsUpTo(S, n) == UNION {[1..m -> S] : m \in 0..n}

----------------------------------------------------------------------------
(* str.split('\n') and '\n'.join(list) *)

RECURSIVE SplitFrom(_, _, _)
SplitFrom(s, i, cur) ==
    IF i > Len(s) THEN <<cur>>
    ELSE IF s[i] = NL THEN <<cur>> \o SplitFrom(s, i + 1, <<>>)
    ELSE SplitFrom(s, i + 1, Append(cur, s[i]))

Split(s) == SplitFrom(s, 1, <<>>)

RECURSIVE Join(_)
Join(ls) ==
    IF ls = <<>> THEN <<>>
    ELSE IF Len(ls) = 1 THEN ls[1]
    ELSE ls[1] \o <<NL>> \o Join(Tail(ls))

----------------------------------------------------------------------------
(* _re_includes = "^\s*#include\s*[<\"](\S+)[\">]", used with match(line) *)

IncludeWord == <<"#","i","n","c","l","u","d","e">>

IsCloser(c) == c \in {Q, ">"}

\* \s* and the literal are deterministic; (\S+)[">] backtracks inside the
\* run of non-space characters that follows the opening delimiter
IncludeMatch(line) ==
    LET h == SkipWhile(line, 1, SpaceChars)
        o == SkipWhile(line, h + Len(IncludeWord), SpaceChars)
    IN  /\ StartsWith(line, h, IncludeWord)
        /\ o <= Len(line)
        /\ line[o] \in {"<", Q}
        /\ LET e == SkipUntil(line, o + 1, SpaceChars)
           IN  \E c \in (o + 2)..(e - 1) : IsCloser(line[c])

----------------------------------------------------------------------------
(* _extract_includes *)

\* a body of the loop that does not comment the directive out
ExtractStepKeepsLine(st, line) ==
    IF IncludeMatch(line)
    THEN [includes |-> Append(st.includes, line),
          sketch   |-> Append(st.sketch, line)]
    ELSE [includes |-> st.includes,
          sketch   |-> Append(st.sketch, line)]

\* a body of the loop that hoists every directive line
ExtractStepAnyDirective(st, line) ==
    IF Len(line) > 0 /\ line[1] = "#"
    THEN [includes |-> Append(st.includes, line),
          sketch   |-> Append(st.sketch, <<"/", "/">> \o line)]
    ELSE [includes |-> st.includes,
          sketch   |-> Append(st.sketch, line)]

\* one iteration of "for line in src_lines"
ExtractStep(st, line) ==
    IF IncludeMatch(line)
    THEN [includes |-> Append(st.includes, line),
          sketch   |-> Append(st.sketch, <<"/", "/">> \o line)]
    ELSE [includes |-> st.includes,
          sketch   |-> Append(st.sketch, line)]

RECURSIVE ExtractFold(_, _)
ExtractFold(ls, n) ==
    IF n = 0 THEN [includes |-> <<>>, sketch |-> <<>>]
    ELSE ExtractStep(ExtractFold(ls, n - 1), ls[n])

\* the pair (includes, sketch) returned
_extract_includes(ls) == ExtractFold(ls, Len(ls))

----------------------------------------------------------------------------
(* _re_strip, compiled with re.MULTILINE; five alternatives tried in order *)

\* ('.')  -  "." does not match a newline
CharLitEnd(s, i) ==
    IF /\ i + 2 <= Len(s)
       /\ s[i] = "'"
       /\ s[i + 1] # NL
       /\ s[i + 2] = "'"
    THEN i + 2 ELSE 0

\* the body (?:[^"\\]|\\.)* and the closing quote, from position p
RECURSIVE StringBodyEnd(_, _)
StringBodyEnd(s, p) ==
    IF p > Len(s) THEN 0
    ELSE IF s[p] = Q THEN p
    ELSE IF s[p] = B
         THEN IF p + 1 <= Len(s) /\ s[p + 1] # NL
              THEN StringBodyEnd(s, p + 2) ELSE 0
    ELSE StringBodyEnd(s, p + 1)

\* ("(?:[^"\\]|\\.)*")
StringLitEnd(s, i) ==
    IF s[i] = Q THEN StringBodyEnd(s, i + 1) ELSE 0

\* .*?$ from position p: the last index before the next newline or the end
LineEnd(s, p) == SkipUntil(s, p, {NL}) - 1

\* (//.*?$)
LineCommentEnd(s, i) ==
    IF StartsWith(s, i, <<"/", "/">>) THEN LineEnd(s, i + 2) ELSE 0

\* [^*]*(?:\*(?!/)[^*]*)*\*/ from position p: the first "*/" at or after p
RECURSIVE BlockBodyEnd(_, _)
BlockBodyEnd(s, p) ==
    IF p + 1 > Len(s) THEN 0
    ELSE IF s[p] = "*" /\ s[p + 1] = "/" THEN p + 1
    ELSE BlockBodyEnd(s, p + 1)

\* (/\*[^*]*(?:\*(?!/)[^*]*)*\*/)
BlockCommentEnd(s, i) ==
    IF StartsWith(s, i, <<"/", "*">>) THEN BlockBodyEnd(s, i + 2) ELSE 0

\* (^\s*#.*?$)  -  "^" is a line start, \s* runs over newlines too
DirectiveEnd(s, i) ==
    LET h == SkipWhile(s, i, SpaceChars)
    IN  IF /\ (i = 1 \/ s[i - 1] = NL)
           /\ h <= Len(s)
           /\ s[h] = "#"
        THEN LineEnd(s, h + 1) ELSE 0

\* a pattern whose string and block-comment alternatives run to the end of
\* the text when the closing delimiter is missing
StripMatchEndOpenRegions(s, i) ==
    IF CharLitEnd(s, i) # 0 THEN CharLitEnd(s, i)
    ELSE IF s[i] = Q
         THEN (IF StringLitEnd(s, i) # 0 THEN StringLitEnd(s, i) ELSE Len(s))
    ELSE IF LineCommentEnd(s, i) # 0 THEN LineCommentEnd(s, i)
    ELSE IF StartsWith(s, i, <<"/", "*">>)
         THEN (IF BlockCommentEnd(s, i) # 0 THEN BlockCommentEnd(s, i)
               ELSE Len(s))
    ELSE DirectiveEnd(s, i)

\* index of the last character of the match of _re_strip at i, 0 if none
StripMatchEnd(s, i) ==
    IF CharLitEnd(s, i) # 0 THEN CharLitEnd(s, i)
    ELSE IF StringLitEnd(s, i) # 0 THEN StringLitEnd(s, i)
    ELSE IF LineCommentEnd(s, i) # 0 THEN LineCommentEnd(s, i)
    ELSE IF BlockCommentEnd(s, i) # 0 THEN BlockCommentEnd(s, i)
    ELSE DirectiveEnd(s, i)

\* _re_strip.sub(' ', s) from scan position i on
RECURSIVE StripFrom(_, _)
StripFrom(s, i) ==
    IF i > Len(s) THEN <<>>
    ELSE IF StripMatchEnd(s, i) # 0
         THEN <<" ">> \o StripFrom(s, StripMatchEnd(s, i) + 1)
    ELSE <<s[i]>> \o StripFrom(s, i + 1)

_strip(s) == StripFrom(s, 1)

----------------------------------------------------------------------------
(* _collapse_braces *)

\* one iteration of "for c in src"
CollapseStep(st, c) ==
    LET copied == IF st.nesting = 0 THEN Append(st.result, c) ELSE st.result
    IN  IF c = "{"
        THEN [nesting |-> st.nesting + 1, result |-> copied]
        ELSE IF c = "}"
        THEN [nesting |-> st.nesting - 1, result |-> Append(copied, c)]
        ELSE [nesting |-> st.nesting, result |-> copied]

RECURSIVE CollapseFold(_, _)
CollapseFold(s, n) ==
    IF n = 0 THEN [nesting |-> 0, result |-> <<>>]
    ELSE CollapseStep(CollapseFold(s, n - 1), s[n])

_collapse_braces(s) == CollapseFold(s, Len(s)).result

----------------------------------------------------------------------------
(* _re_prototype =                                                         *)
(*   [\w\[\]\*]+\s+[&\[\]\*\w\s]+\([&,\[\]\*\w\s]*\)(?=\s*\{)              *)

TypeChars  == WordChars \cup {"[", "]", "*"}
DeclChars  == WordChars \cup SpaceChars \cup {"&", "[", "]", "*"}
ParamChars == DeclChars \cup {","}

\* index of the ")" that ends the match starting at i, 0 if none.  The
\* classes force the split: the first class ends at the first space, the
\* third at the first "(", the parameters at the first ")".
ProtoMatchEnd(s, i) ==
    LET j == SkipWhile(s, i, TypeChars)
        p == SkipWhile(s, j, DeclChars)
        q == SkipWhile(s, p + 1, ParamChars)
        r == SkipWhile(s, q + 1, SpaceChars)
    IN  IF /\ j > i
           /\ j <= Len(s) /\ IsSpace(s[j])
           /\ p >= j + 2
           /\ p <= Len(s) /\ s[p] = "("
           /\ q <= Len(s) /\ s[q] = ")"
           /\ r <= Len(s) /\ s[r] = "{"
        THEN q ELSE 0

\* _re_prototype.findall(s) from scan position i on
RECURSIVE FindallFrom(_, _)
FindallFrom(s, i) ==
    IF i > Len(s) THEN <<>>
    ELSE IF ProtoMatchEnd(s, i) # 0
         THEN <<SubSeq(s, i, ProtoMatchEnd(s, i))>>
              \o FindallFrom(s, ProtoMatchEnd(s, i) + 1)
    ELSE FindallFrom(s, i + 1)

\* [m + ';' for m in matches]
Terminate(ms) == [n \in 1..Len(ms) |-> ms[n] \o <<";">>]

_prototypes(s) == Terminate(FindallFrom(_collapse_braces(_strip(s)), 1))

----------------------------------------------------------------------------
(* _generateSFile: output name and the seven out.write calls *)

\* os.path.basename(path)
Basename(path) ==
    LET slashes == {i \in 1..Len(path) : path[i] = "/"}
    IN  IF slashes = {} THEN path
        ELSE SubSeq(path,
                    (CHOOSE i \in slashes : \A j \in slashes : j <= i) + 1,
                    Len(path))

\* start of the match of _re_extension = r'\.(\w+)\Z' in name, 0 if none
ExtensionStart(name) ==
    LET ms == {d \in 1..(Len(name) - 1) :
                  /\ name[d] = "."
                  /\ \A n \in (d + 1)..Len(name) : IsWord(name[n])}
    IN  IF ms = {} THEN 0 ELSE CHOOSE d \in ms : \A e \in ms : d <= e

\* sketchBasename + ".cpp"; the output directory is fixed
OutputName(path) ==
    LET base == Basename(path)
        d    == ExtensionStart(base)
    IN  (IF d = 0 THEN base ELSE SubSeq(base, 1, d - 1))
        \o <<".", "c", "p", "p">>

MasterInclude ==
    <<"#","i","n","c","l","u","d","e"," ","<",
      "A","r","d","u","i","n","o",".","h",">">> \o <<NL>>

MarkerPrefix == <<"/","/"," ","l","i","n","e"," ","1"," ">>

\* the write calls with the prototypes written before the includes
NthWritePrototypesFirst(n, incs, protos, sk, ls) ==
    CASE n = 1 -> MasterInclude
      [] n = 2 -> Join(protos)
      [] n = 3 -> <<NL>>
      [] n = 4 -> Join(incs)
      [] n = 5 -> <<NL>>
      [] n = 6 -> MarkerPrefix \o sk \o <<NL>>
      [] n = 7 -> Join(ls)

\* the text of the n-th out.write call; sk is the value of the local
\* variable sketch at that point
NthWrite(n, incs, protos, sk, ls) ==
    CASE n = 1 -> MasterInclude
      [] n = 2 -> Join(incs)
      [] n = 3 -> <<NL>>
      [] n = 4 -> Join(protos)
      [] n = 5 -> <<NL>>
      [] n = 6 -> MarkerPrefix \o sk \o <<NL>>
      [] n = 7 -> Join(ls)

NumWrites == 7

----------------------------------------------------------------------------
(* Values that stand for "no file" and for the parts of the state an      *)
(* operation does not use                                                  *)

NoFile == <<>>
FileOf(content) == <<content>>

IdleText ==
    /\ src = <<>> /\ spos = 0 /\ redacted = <<>> /\ restripped = <<>>
    /\ cpos = 0 /\ nesting = 0 /\ result = <<>>

IdleIncludes == src_lines = <<>> /\ lpos = 0

IdleRun ==
    /\ sketches = <<>> /\ fs = <<>> /\ dirMade = FALSE /\ outFiles = <<>>
    /\ k = 0 /\ sketch = <<>> /\ wr = 0

----------------------------------------------------------------------------
(* Specification SpecIncludes: _extract_includes on bounded line lists *)

LineSamples ==
    { IncludeWord \o <<" ", "<", "a", ">">>,
      <<" ">> \o IncludeWord \o <<Q, "b", Q>>,
      IncludeWord \o <<" ", "<", "a">>,
      IncludeWord \o <<" ", "<", ">">>,
      <<"/", "/">> \o IncludeWord \o <<" ", "<", "a", ">">>,
      <<"#", "i", "f">>,
      <<"x">>,
      <<>> }

InitIncludes ==
    /\ pc = "extract"
    /\ src_lines \in SeqsUpTo(LineSamples, MaxLines)
    /\ lpos = 1
    /\ includes = <<>>
    /\ lines = <<>>
    /\ prototypes = <<>>
    /\ IdleText /\ IdleRun

ExtractIter ==
    /\ pc = "extract"
    /\ lpos <= Len(src_lines)
    /\ LET st == ExtractStep([includes |-> includes, sketch |-> lines],
                             src_lines[lpos])
       IN  /\ includes' = st.includes
           /\ lines' = st.sketch
    /\ lpos' = lpos + 1
    /\ UNCHANGED <<pc, src_lines, prototypes, textVars, runVars>>

ExtractReturn ==
    /\ pc = "extract"
    /\ lpos > Len(src_lines)
    /\ pc' = "extracted"
    /\ UNCHANGED <<incVars, includes, lines, prototypes, textVars, runVars>>

NextIncludes == ExtractIter \/ ExtractReturn

SpecIncludes == InitIncludes /\ [][NextIncludes]_vars

----------------------------------------------------------------------------
(* Specification SpecStrip: _strip, _strip again, _collapse_braces and    *)
(* findall, as _prototypes chains them, on sources built from fragments    *)

Fragments ==
    { <<"'", B, Q, "'">>,
      <<Q, "{", "}", Q>>,
      <<"/", "*", "}", "*", "/">>,
      <<"/", "/", "{">>,
      <<NL>>,
      <<"#", "d">>,
      <<Q>>,
      <<"/", "*">>,
      <<"v", " ", "f", "(", ")">>,
      <<"{">>,
      <<"}">> }

InitStrip ==
    /\ pc = "strip"
    /\ \E fr \in SeqsUpTo(Fragments, MaxFrags) : src = Concat(fr)
    /\ spos = 1
    /\ redacted = <<>>
    /\ restripped = <<>>
    /\ cpos = 0 /\ nesting = 0 /\ result = <<>>
    /\ prototypes = <<>>
    /\ includes = <<>> /\ lines = <<>>
    /\ IdleIncludes /\ IdleRun

\* re.sub: no alternative matches at spos, the character is copied
StripCopy ==
    /\ pc = "strip"
    /\ spos <= Len(src)
    /\ StripMatchEnd(src, spos) = 0
    /\ redacted' = Append(redacted, src[spos])
    /\ spos' = spos + 1
    /\ UNCHANGED <<pc, src, restripped, cpos, nesting, result, prototypes,
                   incVars, includes, lines, runVars>>

\* re.sub: the match at spos is replaced by ' '
StripReplace ==
    /\ pc = "strip"
    /\ spos <= Len(src)
    /\ StripMatchEnd(src, spos) # 0
    /\ redacted' = Append(redacted, " ")
    /\ spos' = StripMatchEnd(src, spos) + 1
    /\ UNCHANGED <<pc, src, restripped, cpos, nesting, result, prototypes,
                   incVars, includes, lines, runVars>>

StripReturn ==
    /\ pc = "strip"
    /\ spos > Len(src)
    /\ pc' = "restrip"
    /\ UNCHANGED <<textVars, prototypes, incVars, includes, lines, runVars>>

\* _strip applied to the text _strip returned
Restrip ==
    /\ pc = "restrip"
    /\ restripped' = _strip(redacted)
    /\ pc' = "collapse"
    /\ cpos' = 1
    /\ nesting' = 0
    /\ result' = <<>>
    /\ UNCHANGED <<src, spos, redacted, prototypes, incVars, includes, lines,
                   runVars>>

CollapseIter ==
    /\ pc = "collapse"
    /\ cpos <= Len(redacted)
    /\ LET st == CollapseStep([nesting |-> nesting, result |-> result],
                              redacted[cpos])
       IN  /\ nesting' = st.nesting
           /\ result' = st.result
    /\ cpos' = cpos + 1
    /\ UNCHANGED <<pc, src, spos, redacted, restripped, prototypes,
                   incVars, includes, lines, runVars>>

CollapseReturn ==
    /\ pc = "collapse"
    /\ cpos > Len(redacted)
    /\ pc' = "collapsed"
    /\ UNCHANGED <<textVars, prototypes, incVars, includes, lines, runVars>>

\* matches = findall(src); return [m + ';' for m in matches]
Findall ==
    /\ pc = "collapsed"
    /\ prototypes' = Terminate(FindallFrom(result, 1))
    /\ pc' = "done"
    /\ UNCHANGED <<textVars, incVars, includes, lines, runVars>>

NextStrip ==
    \/ StripCopy \/ StripReplace \/ StripReturn \/ Restrip
    \/ CollapseIter \/ CollapseReturn \/ Findall

SpecStrip == InitStrip /\ [][NextStrip]_vars

----------------------------------------------------------------------------
(* Specification SpecCollapse: _collapse_braces on bounded brace texts *)

BraceChars == {"{", "}", "x"}

InitCollapse ==
    /\ pc = "collapse"
    /\ redacted \in SeqsUpTo(BraceChars, MaxBraceLen)
    /\ src = <<>> /\ spos = 0 /\ restripped = <<>>
    /\ cpos = 1 /\ nesting = 0 /\ result = <<>>
    /\ prototypes = <<>>
    /\ includes = <<>> /\ lines = <<>>
    /\ IdleIncludes /\ IdleRun

NextCollapse == CollapseIter \/ CollapseReturn

SpecCollapse == InitCollapse /\ [][NextCollapse]_vars

----------------------------------------------------------------------------
(* Specification Spec: Preprocess.run over a bounded argument list and a  *)
(* bounded set of sketch files                                             *)

Paths == { <<"a", ".", "i">>, <<"d", "/", "a">>, <<"b">> }

Texts ==
    { <<>>,
      <<"v", " ", "f", "(", ")", "{", "}">>,
      IncludeWord \o <<" ", "<", "a", ">", NL>>
          \o <<"v", " ", "f", "(", ")", "{", "}">> }

OutNames == {OutputName(p) : p \in Paths}

Init ==
    /\ pc = "mkdirs"
    /\ sketches \in (SeqsUpTo(Paths, MaxSketches) \ {<<>>})
    /\ fs \in [Paths -> {NoFile} \cup {FileOf(t) : t \in Texts}]
    /\ dirMade = FALSE
    /\ outFiles = [n \in OutNames |-> NoFile]
    /\ k = 0
    /\ sketch = <<>>
    /\ wr = 0
    /\ prototypes = <<>>
    /\ includes = <<>>
    /\ lines = <<>>
    /\ IdleText /\ IdleIncludes

\* mkdirs(self._outputDir): the directory exists afterwards
Mkdirs ==
    /\ pc = "mkdirs"
    /\ dirMade' = TRUE
    /\ k' = 1
    /\ pc' = "loop"
    /\ UNCHANGED <<sketches, fs, outFiles, sketch, wr, prototypes, includes,
                   lines, textVars, incVars>>

\* for sketch in self._sketches: the call _generateSFile(sketch, ...)
LoopNext ==
    /\ pc = "loop"
    /\ k <= Len(sketches)
    /\ sketch' = sketches[k]
    /\ pc' = "open_out"
    /\ UNCHANGED <<sketches, fs, dirMade, outFiles, k, wr, prototypes,
                   includes, lines, textVars, incVars>>

LoopEnd ==
    /\ pc = "loop"
    /\ k > Len(sketches)
    /\ pc' = "finished"
    /\ UNCHANGED <<runVars, prototypes, includes, lines, textVars, incVars>>

\* open(outputFile, 'wt'): the file is created, or truncated if it exists
OpenOut ==
    /\ pc = "open_out"
    /\ dirMade
    /\ outFiles' = [outFiles EXCEPT ![OutputName(sketch)] = FileOf(<<>>)]
    /\ pc' = "open_sketch"
    /\ UNCHANGED <<sketches, fs, dirMade, k, sketch, wr, prototypes,
                   includes, lines, textVars, incVars>>

\* open(sketch, 'rt') raises: the exception leaves both with blocks and run
OpenSketchFail ==
    /\ pc = "open_sketch"
    /\ fs[sketch] = NoFile
    /\ pc' = "failed"
    /\ UNCHANGED <<runVars, prototypes, includes, lines, textVars, incVars>>

\* sketch = sketchFile.read(); prototypes = ...; lines = sketch.split('\n');
\* includes, lines = self._extract_includes(lines)
ReadSketch ==
    /\ pc = "open_sketch"
    /\ fs[sketch] # NoFile
    /\ LET text == fs[sketch][1]
           ex   == _extract_includes(Split(text))
       IN  /\ sketch' = text
           /\ prototypes' = _prototypes(text)
           /\ includes' = ex.includes
           /\ lines' = ex.sketch
    /\ wr' = 0
    /\ pc' = "write"
    /\ UNCHANGED <<sketches, fs, dirMade, outFiles, k, textVars, incVars>>

\* the next out.write call on the file opened for sketches[k]
Write ==
    /\ pc = "write"
    /\ wr < NumWrites
    /\ LET name == OutputName(sketches[k])
           text == NthWrite(wr + 1, includes, prototypes, sketch, lines)
       IN  outFiles' = [outFiles EXCEPT
                           ![name] = FileOf(Append(outFiles[name][1], text))]
    /\ wr' = wr + 1
    /\ UNCHANGED <<pc, sketches, fs, dirMade, k, sketch, prototypes,
                   includes, lines, textVars, incVars>>

\* both with blocks end; _generateSFile returns to the loop of run
Close ==
    /\ pc = "write"
    /\ wr = NumWrites
    /\ k' = k + 1
    /\ pc' = "loop"
    /\ UNCHANGED <<sketches, fs, dirMade, outFiles, sketch, wr, prototypes,
                   includes, lines, textVars, incVars>>

Next ==
    \/ Mkdirs \/ LoopNext \/ LoopEnd \/ OpenOut \/ OpenSketchFail
    \/ ReadSketch \/ Write \/ Close

Spec == Init /\ [][Next]_vars

----------------------------------------------------------------------------
(* Notions the properties are stated with *)

CountOf(s, c) == Cardinality({i \in 1..Len(s) : s[i] = c})

IsBrace(c) == c \in {"{", "}"}

NoBrace(s) == \A i \in 1..Len(s) : ~IsBrace(s[i])

\* the line as the hoister must leave it in the body
Neutralized(line) ==
    IF IncludeMatch(line) THEN <<"/", "/">> \o line ELSE line

\* braces open after the first n characters of s
Depth(s, n) ==
    Cardinality({i \in 1..n : s[i] = "{"})
        - Cardinality({i \in 1..n : s[i] = "}"})

Balanced(s) ==
    /\ \A n \in 0..Len(s) : Depth(s, n) >= 0
    /\ Depth(s, Len(s)) = 0

TopLevelPairs(s) ==
    Cardinality({i \in 1..Len(s) : s[i] = "{" /\ Depth(s, i - 1) = 0})

\* The literals and comments of a source as a C lexer delimits them: the
\* closing quote of a literal is the first unescaped quote, a literal does
\* not run over a line end, a block comment ends at the first "*/".
RECURSIVE CQuoteEnd(_, _, _)
CQuoteEnd(s, p, q) ==
    IF p > Len(s) \/ s[p] = NL THEN 0
    ELSE IF s[p] = B THEN CQuoteEnd(s, p + 2, q)
    ELSE IF s[p] = q THEN p
    ELSE CQuoteEnd(s, p + 1, q)

\* end of the literal or comment that opens at i; 0 when it is not
\* terminated, -1 when no literal or comment opens at i
CRegionEnd(s, i) ==
    IF s[i] = Q THEN CQuoteEnd(s, i + 1, Q)
    ELSE IF s[i] = "'"
         THEN (IF CQuoteEnd(s, i + 1, "'") = i + 1 THEN 0
               ELSE CQuoteEnd(s, i + 1, "'"))
    ELSE IF StartsWith(s, i, <<"/", "/">>)
         THEN SkipUntil(s, i + 2, {NL}) - 1
    ELSE IF StartsWith(s, i, <<"/", "*">>)
         THEN (IF \E e \in (i + 3)..Len(s) : s[e - 1] = "*" /\ s[e] = "/"
               THEN CHOOSE e \in (i + 3)..Len(s) :
                       /\ s[e - 1] = "*" /\ s[e] = "/"
                       /\ \A f \in (i + 3)..(e - 1) :
                              ~(s[f - 1] = "*" /\ s[f] = "/")
               ELSE 0)
    ELSE -1

RECURSIVE CLexFrom(_, _)
CLexFrom(s, i) ==
    IF i > Len(s) THEN [ok |-> TRUE, inside |-> {}]
    ELSE IF CRegionEnd(s, i) = -1 THEN CLexFrom(s, i + 1)
    ELSE IF CRegionEnd(s, i) = 0 THEN [ok |-> FALSE, inside |-> {}]
    ELSE [ok     |-> CLexFrom(s, CRegionEnd(s, i) + 1).ok,
          inside |-> CLexFrom(s, CRegionEnd(s, i) + 1).inside
                         \cup (i..CRegionEnd(s, i))]

\* every literal and comment of s is terminated
CWellFormed(s) == CLexFrom(s, 1).ok

\* s has braces, and all of them lie in terminated literals or comments
BracesOnlyInLiterals(s) ==
    /\ CWellFormed(s)
    /\ \E i \in 1..Len(s) : IsBrace(s[i])
    /\ \A i \in 1..Len(s) : IsBrace(s[i]) => i \in CLexFrom(s, 1).inside

\* a string literal or block comment opens at i and s has no closing
\* delimiter after it
OpenRegionAt(s, i) ==
    \/ /\ s[i] = Q
       /\ \A j \in (i + 1)..Len(s) : s[j] # Q
    \/ /\ StartsWith(s, i, <<"/", "*">>)
       /\ \A j \in (i + 2)..(Len(s) - 1) : ~(s[j] = "*" /\ s[j + 1] = "/")

\* the scan of _strip stands on the opening delimiter of an open region
ScanAtOpenRegion ==
    /\ pc = "strip"
    /\ spos <= Len(src)
    /\ OpenRegionAt(src, spos)

\* name of the output file of the j-th sketch argument
NameOf(j) == OutputName(sketches[j])

\* the complete list of writes _generateSFile makes for a sketch text
CompleteWrites(text) ==
    [n \in 1..NumWrites |->
        NthWrite(n, _extract_includes(Split(text)).includes,
                 _prototypes(text), text,
                 _extract_includes(Split(text)).sketch)]

----------------------------------------------------------------------------
(* Properties *)

\* C1: at every point of _extract_includes the body holds one line per
\* input line consumed, line i being the input line i unchanged when it
\* does not match the include pattern and "//" + the input line when it
\* does; the returned body has exactly len(L) lines.
C1_BodyLineForLine ==
    pc \in {"extract", "extracted"} =>
        /\ Len(lines) = lpos - 1
        /\ (pc = "extracted" => Len(lines) = Len(src_lines))
        /\ \A i \in 1..Len(lines) :
               lines[i] = (IF IncludeMatch(src_lines[i])
                           THEN <<"/", "/">> \o src_lines[i]
                           ELSE src_lines[i])

C1_Witness ==
    /\ pc = "extracted"
    /\ \E i, j \in 1..Len(src_lines) :
           /\ IncludeMatch(src_lines[i])
           /\ ~IncludeMatch(src_lines[j])
           /\ lines[i] = <<"/", "/">> \o src_lines[i]
           /\ lines[j] = src_lines[j]

\* C2: the hoisted include list is exactly the subsequence of the input
\* lines consumed so far that match the include pattern: same order, each
\* line verbatim, once per occurrence.
C2_HoistedIsMatchingSubsequence ==
    pc \in {"extract", "extracted"} =>
        includes = SelectSeq(SubSeq(src_lines, 1, lpos - 1), IncludeMatch)

C2_Witness ==
    /\ pc = "extracted"
    /\ Len(includes) = 2
    /\ Len(src_lines) > 2
    /\ "<" \in {includes[1][i] : i \in 1..Len(includes[1])}
    /\ Q \in {includes[2][i] : i \in 1..Len(includes[2])}

\* C3: the origin marker, the sixth write of an output file, occupies
\* exactly one output line whatever the sketch is.
C3_MarkerIsOneLine ==
    \A n \in DOMAIN outFiles :
        (outFiles[n] # NoFile /\ Len(outFiles[n][1]) >= 6)
            => CountOf(outFiles[n][1][6], NL) = 1

\* C4: the writes to the output file of the sketch in progress are, in
\* this order, the master include line, the hoisted include lines, a line
\* end, the prototypes, a line end, the origin marker and the neutralized
\* body; nothing is written out of that order.
C4_WritesInFixedOrder ==
    pc = "write" =>
        LET text == fs[sketches[k]][1]
            w    == outFiles[NameOf(k)][1]
            ls   == Split(text)
            body == [i \in 1..Len(ls) |-> Neutralized(ls[i])]
        IN  /\ Len(w) = wr
            /\ wr >= 1 => w[1] = MasterInclude
            /\ wr >= 2 => w[2] = Join(SelectSeq(ls, IncludeMatch))
            /\ wr >= 3 => w[3] = <<NL>>
            /\ wr >= 4 => w[4] = Join(_prototypes(text))
            /\ wr >= 5 => w[5] = <<NL>>
            /\ wr >= 6 => /\ StartsWith(w[6], 1, MarkerPrefix)
                          /\ w[6][Len(w[6])] = NL
            /\ wr >= 7 => w[7] = Join(body)

C4_Witness ==
    /\ pc = "write"
    /\ wr = NumWrites
    /\ includes # <<>>
    /\ prototypes # <<>>

\* C5: for a balanced input of _collapse_braces the collapsed text holds
\* as many "{" as "}", both as many as the input has top-level brace pairs.
C5_BalancedBraceCounts ==
    (pc = "collapsed" /\ Balanced(redacted)) =>
        /\ CountOf(result, "{") = TopLevelPairs(redacted)
        /\ CountOf(result, "}") = TopLevelPairs(redacted)

\* C6: when the sketch file cannot be opened, the failed call leaves no
\* output file: the output file of the failing sketch, which no earlier
\* sketch of the invocation wrote, does not exist.
C6_NoOutputOnReadFailure ==
    (pc = "failed" /\ \A j \in 1..(k - 1) : NameOf(j) # NameOf(k))
        => outFiles[NameOf(k)] = NoFile

\* C7: when every brace of a source lies in a terminated string literal,
\* character literal or comment, no brace reaches the redacted text, the
\* brace-depth counter stays 0 and no brace reaches the collapsed text.
C7_LiteralBracesInvisible ==
    BracesOnlyInLiterals(src) =>
        /\ NoBrace(redacted)
        /\ nesting = 0
        /\ NoBrace(result)

\* C8 as stated: standing on the opening delimiter of a string literal or
\* block comment that is never closed, _strip replaces everything from
\* there to the end of the text by a single blank.
C8_OpenRegionRunsToEnd ==
    [][ScanAtOpenRegion =>
           /\ redacted' = Append(redacted, " ")
           /\ spos' = Len(src) + 1]_vars

\* C8 as amended: standing on the opening delimiter of a string literal or
\* block comment that is never closed, _strip copies that character
\* unchanged and goes on scanning at the next character.
C8_OpenDelimiterIsCopied ==
    [][ScanAtOpenRegion =>
           /\ redacted' = Append(redacted, src[spos])
           /\ spos' = spos + 1]_vars

C8_Witness ==
    /\ pc = "restrip"
    /\ redacted = src
    /\ \E i \in 1..(Len(src) - 1) : OpenRegionAt(src, i) /\ IsBrace(src[i + 1])

\* C9: for a source whose literals and comments are all terminated,
\* _strip applied to the output of _strip returns that output.
C9_StripIdempotent ==
    (pc \in {"collapse", "collapsed", "done"} /\ CWellFormed(src))
        => restripped = redacted

\* C10: the output directory exists before any output file does; when the
\* invocation fails at sketch k, the output of each earlier sketch (the
\* last one written under its name) is complete, and no output file
\* exists that only sketches after k name.
C10_AbortKeepsEarlierOutputs ==
    /\ (\E n \in DOMAIN outFiles : outFiles[n] # NoFile) => dirMade
    /\ pc = "failed" =>
        /\ \A j \in 1..(k - 1) :
               (\A j2 \in (j + 1)..(k - 1) : NameOf(j2) # NameOf(j))
                   => outFiles[NameOf(j)]
                          = FileOf(CompleteWrites(fs[sketches[j]][1]))
        /\ \A m \in (k + 1)..Len(sketches) :
               (\A j \in 1..k : NameOf(j) # NameOf(m))
                   => outFiles[NameOf(m)] = NoFile

====
